---- MODULE Spec2Model ----
(***************************************************************************)
(* OCR monitoring scripts: ocr_alert_check.py (threshold evaluation and    *)
(* conditional alert mail) and send_ocr_monthly_report.py (monthly digest  *)
(* with a high-risk-item ranking).                                         *)
(*                                                                         *)
(* Conventions                                                             *)
(*   - A JSON value that may be null is an option: <<>> is null/None and   *)
(*     <<v>> is the value v.                                               *)
(*   - Rates and rate thresholds are fractions counted in hundredths       *)
(*     (0.20 is 20), so >= on them is the float comparison of the code.    *)
(*   - A run's exit status is an option too: <<>> while running.           *)
(***************************************************************************)
EXTENDS Integers, Sequences, FiniteSets, TLC

VARIABLES
    \* ---- ocr_alert_check.py: one run of main() ----
    env,          \* module-level settings read from the environment (lines 12-26)
    pc,           \* position of the run in main() / send_mail_smtp()
    th,           \* option: thresholds record returned by fetch_thresholds()
    w,            \* option: row returned by fetch_window_summary()
    rank,         \* option: list returned by fetch_error_stage_rank()
    reasons,      \* the reasons list of main()
    is_alert,     \* option: the is_alert flag of main()
    subject,      \* option: the subject built by build_subject
    body,         \* option: the body built by build_body_alert / build_body_ok
    rows_in,      \* the raw row lists the store returned, per resource
    send_calls,   \* number of calls of send_mail_smtp
    net,          \* network operations performed so far, in order, each with its outcome
    session,      \* the smtplib.SMTP session: "none", "open" or "closed"
    exc,          \* exception propagating out of the with-block ("" if none)
    sent,         \* messages accepted by the transport
    stdout,       \* lines printed
    exit_status,  \* option: process exit status
    \* ---- the alert rules of main() on their own (lines 260-283) ----
    ev_pc, ev_th, ev_w, ev_reasons, ev_alert,
    \* ---- fetch_high_risk_ranking on its own (lines 56-85) ----
    rk_pc, rk_rows, rk_limit, rk_agg, rk_result, rk_i,
    \* ---- send_ocr_monthly_report.py: one run of the module ----
    m_env, m_pc, m_month_row, m_list, m_body, m_send_calls, m_net, m_session,
    m_exc, m_sent, m_stdout, m_exit

alertVars   == <<env, pc, th, w, rank, reasons, is_alert, subject, body, rows_in,
                 send_calls, net, session, exc, sent, stdout, exit_status>>
evalVars    == <<ev_pc, ev_th, ev_w, ev_reasons, ev_alert>>
rankVars    == <<rk_pc, rk_rows, rk_limit, rk_agg, rk_result, rk_i>>
monthlyVars == <<m_env, m_pc, m_month_row, m_list, m_body, m_send_calls, m_net,
                 m_session, m_exc, m_sent, m_stdout, m_exit>>
vars        == <<alertVars, evalVars, rankVars, monthlyVars>>

None == <<>>
Some(v) == <<v>>

(***************************************************************************)
(* Python truthiness and the `x or default` idiom on a nullable number:    *)
(* None and 0 are both falsy, so both are replaced by the default.         *)
(***************************************************************************)
Truthy(x) == x # None /\ x[1] # 0

OrDefault(x, d) == IF Truthy(x) THEN x[1] ELSE d

\* ------------------------------------------------------------------------
\* Program constants of ocr_alert_check.py
\* ------------------------------------------------------------------------
DEFAULT_WINDOW_MINUTES == 60
DEFAULT_MAX_FAIL_COUNT == 5
DEFAULT_MAX_FAIL_RATE == 20
DEFAULT_QUALITY_SCORE_THRESHOLD == 40
DEFAULT_MAX_LOW_QUALITY_RATE == 30
DEFAULT_UNKNOWN_RATIO_THRESHOLD == 50
DEFAULT_MAX_HIGH_UNKNOWN_RATE == 30
MIN_TOTAL_COUNT == 10

\* The record fetch_thresholds returns when the store has no row.
DefaultThresholds ==
    [ window_minutes          |-> Some(DEFAULT_WINDOW_MINUTES),
      max_fail_count          |-> Some(DEFAULT_MAX_FAIL_COUNT),
      max_fail_rate           |-> Some(DEFAULT_MAX_FAIL_RATE),
      quality_score_threshold |-> Some(DEFAULT_QUALITY_SCORE_THRESHOLD),
      max_low_quality_rate    |-> Some(DEFAULT_MAX_LOW_QUALITY_RATE),
      unknown_ratio_threshold |-> Some(DEFAULT_UNKNOWN_RATIO_THRESHOLD),
      max_high_unknown_rate   |-> Some(DEFAULT_MAX_HIGH_UNKNOWN_RATE) ]

\* fetch_thresholds returning an empty record when the store has no row
fetch_thresholds_NoDefaults(rows) ==
    IF rows = <<>>
    THEN [ window_minutes |-> None, max_fail_count |-> None, max_fail_rate |-> None,
           quality_score_threshold |-> None, max_low_quality_rate |-> None,
           unknown_ratio_threshold |-> None, max_high_unknown_rate |-> None ]
    ELSE rows[1]

\* fetch_thresholds, on the rows the store returned
fetch_thresholds(rows) == IF rows = <<>> THEN DefaultThresholds ELSE rows[1]

\* fetch_error_stage_rank, on the rows the store returned (`rows or []`)
fetch_error_stage_rank(rows) == IF rows = <<>> THEN <<>> ELSE rows

\* ------------------------------------------------------------------------
\* The alert rules of main(), lines 260-283
\* ------------------------------------------------------------------------
fail_count(wr)        == OrDefault(wr.fail_count, 0)
total_count(wr)       == OrDefault(wr.total_count, 0)
fail_rate(wr)         == OrDefault(wr.fail_rate, 0)
low_quality_rate(wr)  == OrDefault(wr.low_quality_rate, 0)
high_unknown_rate(wr) == OrDefault(wr.high_unknown_rate, 0)

max_fail_count(t)        == OrDefault(t.max_fail_count, DEFAULT_MAX_FAIL_COUNT)
max_fail_rate(t)         == OrDefault(t.max_fail_rate, DEFAULT_MAX_FAIL_RATE)
max_low_quality_rate(t)  == OrDefault(t.max_low_quality_rate, DEFAULT_MAX_LOW_QUALITY_RATE)
max_high_unknown_rate(t) == OrDefault(t.max_high_unknown_rate, DEFAULT_MAX_HIGH_UNKNOWN_RATE)

\* A reason string embeds the rule, the observed value and the threshold.
Reason(rule, value, threshold) == [rule |-> rule, value |-> value, threshold |-> threshold]

RuleFailCount(t, wr) == fail_count(wr) >= max_fail_count(t)

RuleFailRate_Ungated(t, wr) == fail_rate(wr) >= max_fail_rate(t)

RuleFailRate(t, wr) ==
    total_count(wr) >= MIN_TOTAL_COUNT /\ fail_rate(wr) >= max_fail_rate(t)

RuleLowQuality(t, wr) ==
    total_count(wr) >= MIN_TOTAL_COUNT /\ low_quality_rate(wr) >= max_low_quality_rate(t)

RuleHighUnknown_Elif(t, wr) ==
    /\ ~RuleFailCount(t, wr)
    /\ total_count(wr) >= MIN_TOTAL_COUNT
    /\ high_unknown_rate(wr) >= max_high_unknown_rate(t)

RuleHighUnknown(t, wr) ==
    total_count(wr) >= MIN_TOTAL_COUNT /\ high_unknown_rate(wr) >= max_high_unknown_rate(t)

AppendFailCount(rs, t, wr) ==
    IF RuleFailCount(t, wr)
    THEN Append(rs, Reason("fail_count", fail_count(wr), max_fail_count(t)))
    ELSE rs

AppendFailRate(rs, t, wr) ==
    IF RuleFailRate(t, wr)
    THEN Append(rs, Reason("fail_rate", fail_rate(wr), max_fail_rate(t)))
    ELSE rs

AppendLowQuality(rs, t, wr) ==
    IF RuleLowQuality(t, wr)
    THEN Append(rs, Reason("low_quality_rate", low_quality_rate(wr), max_low_quality_rate(t)))
    ELSE rs

AppendHighUnknown(rs, t, wr) ==
    IF RuleHighUnknown(t, wr)
    THEN Append(rs, Reason("high_unknown_rate", high_unknown_rate(wr), max_high_unknown_rate(t)))
    ELSE rs

\* reasons as main() has built it at line 283
Reasons(t, wr) ==
    AppendHighUnknown(AppendLowQuality(AppendFailRate(AppendFailCount(<<>>, t, wr), t, wr), t, wr), t, wr)

IsAlert(rs) == Len(rs) > 0

\* ------------------------------------------------------------------------
\* Report formatting
\* ------------------------------------------------------------------------
\* int(w.get("window_minutes") or th.get("window_minutes") or 60)
window_minutes(t, wr) ==
    IF Truthy(wr.window_minutes) THEN wr.window_minutes[1]
    ELSE OrDefault(t.window_minutes, DEFAULT_WINDOW_MINUTES)

build_subject(alert, minutes) == [alert |-> alert, window_minutes |-> minutes]

\* One line per ranked stage; the explicit "none" marker when there is none.
StageLine(row) ==
    [ stage |-> IF row.error_stage = None \/ row.error_stage[1] = ""
                THEN "(unknown)" ELSE row.error_stage[1],
      cnt   |-> OrDefault(row.cnt, 0) ]

stage_lines(rk) ==
    IF rk = <<>> THEN << [stage |-> "(none)", cnt |-> 0] >>
    ELSE [i \in 1..Len(rk) |-> StageLine(rk[i])]

build_body_ok(t, wr) ==
    [ kind           |-> "OK",
      window_minutes |-> window_minutes(t, wr),
      total_count    |-> total_count(wr),
      fail_count     |-> fail_count(wr),
      no_runs_note   |-> (total_count(wr) = 0),
      reasons        |-> <<>>,
      stages         |-> <<>> ]

build_body_alert(t, wr, rk, rs) ==
    [ kind           |-> "ALERT",
      window_minutes |-> window_minutes(t, wr),
      total_count    |-> total_count(wr),
      fail_count     |-> fail_count(wr),
      no_runs_note   |-> FALSE,
      reasons        |-> rs,
      stages         |-> stage_lines(rk) ]

\* ------------------------------------------------------------------------
\* _parse_recipients: a raw string is a sequence of one-character strings
\* ------------------------------------------------------------------------
ReplaceSemicolon(s) == [i \in 1..Len(s) |-> IF s[i] = ";" THEN "," ELSE s[i]]

RECURSIVE SplitComma(_)
SplitComma(s) ==
    IF \A i \in 1..Len(s) : s[i] # "," THEN <<s>>
    ELSE LET i == CHOOSE k \in 1..Len(s) :
                     s[k] = "," /\ \A j \in 1..(k - 1) : s[j] # ","
         IN  <<SubSeq(s, 1, i - 1)>> \o SplitComma(SubSeq(s, i + 1, Len(s)))

RECURSIVE Strip(_)
Strip(s) ==
    IF s = <<>> THEN s
    ELSE IF s[1] = " " THEN Strip(Tail(s))
    ELSE IF s[Len(s)] = " " THEN Strip(SubSeq(s, 1, Len(s) - 1))
    ELSE s

_parse_recipients(to_raw) ==
    LET split == SplitComma(ReplaceSemicolon(to_raw))
        parts == [i \in 1..Len(split) |-> Strip(split[i])]
    IN  SelectSeq(parts, LAMBDA p : p # <<>>)

\* ------------------------------------------------------------------------
\* Inputs of a run of ocr_alert_check.py
\* ------------------------------------------------------------------------
\* REPORT_TO samples: unset, delimiters and blanks only, and the mixed form
\* "a; b ,, c".
ReportToSamples ==
    { <<>>,
      <<",", " ", ";">>,
      <<"a", ";", " ", "b", " ", ",", ",", " ", "c">> }

\* FORCE_SEND_OK = os.environ.get("FORCE_SEND_OK", "").lower() == "true"
ForceSendOk(raw) == raw \in {"true", "TRUE", "True"}

EnvSet ==
    { [ SUPABASE_URL              |-> url,
        SUPABASE_SERVICE_ROLE_KEY |-> key,
        SMTP_HOST                 |-> host,
        SMTP_PORT                 |-> port,
        SMTP_USER                 |-> user,
        SMTP_PASS                 |-> pass,
        REPORT_TO                 |-> to,
        REPORT_FROM               |-> from,
        FORCE_SEND_OK             |-> ForceSendOk(force) ] :
      url \in {"", "https://db"}, key \in {"", "key"},
      host \in {"", "smtp.example"}, port \in {0, 587},
      user \in {"", "user"}, pass \in {"", "pass"},
      to \in ReportToSamples, from \in {"", "from@x"},
      force \in {"", "TRUE", "1"} }

ThRow(wm, mfc, mfr, mlq, mhu) ==
    [ window_minutes          |-> wm,
      max_fail_count          |-> mfc,
      max_fail_rate           |-> mfr,
      quality_score_threshold |-> Some(DEFAULT_QUALITY_SCORE_THRESHOLD),
      max_low_quality_rate    |-> mlq,
      unknown_ratio_threshold |-> Some(DEFAULT_UNKNOWN_RATIO_THRESHOLD),
      max_high_unknown_rate   |-> mhu ]

WRow(wm, total, fail, fr, lq, hu) ==
    [ window_minutes    |-> wm,
      total_count       |-> total,
      fail_count        |-> fail,
      fail_rate         |-> fr,
      low_quality_rate  |-> lq,
      high_unknown_rate |-> hu ]

\* A store response: non-2xx, or a JSON array of rows.
HttpError == [ok |-> FALSE, rows |-> <<>>]
HttpOk(rows) == [ok |-> TRUE, rows |-> rows]

ThResponses ==
    { HttpError,
      HttpOk(<<>>),
      HttpOk(<< ThRow(Some(30), Some(6), Some(50), Some(40), Some(40)) >>),
      HttpOk(<< ThRow(None, None, Some(0), None, Some(0)) >>) }

WResponses ==
    { HttpError,
      HttpOk(<<>>),
      HttpOk(<< WRow(Some(60), Some(3), Some(0), Some(0), Some(0), Some(0)) >>),
      HttpOk(<< WRow(Some(60), Some(3), Some(6), Some(100), Some(100), Some(100)) >>),
      HttpOk(<< WRow(None, Some(10), Some(1), Some(10), Some(30), Some(0)) >>),
      HttpOk(<< WRow(None, Some(0), None, None, None, None),
                WRow(Some(60), Some(3), Some(6), Some(100), Some(0), Some(0)) >>) }

RankResponses ==
    { HttpError,
      HttpOk(<<>>),
      HttpOk(<< [error_stage |-> Some("recognition"), cnt |-> Some(4)],
                [error_stage |-> None, cnt |-> None] >>) }

NoRows == [thresholds |-> None, window |-> None, rank |-> None]

InitAlert ==
    /\ env \in EnvSet
    /\ pc = "main"
    /\ th = None /\ w = None /\ rank = None
    /\ reasons = <<>>
    /\ is_alert = None
    /\ subject = None /\ body = None
    /\ rows_in = NoRows
    /\ send_calls = 0
    /\ net = <<>>
    /\ session = "none"
    /\ exc = ""
    /\ sent = <<>>
    /\ stdout = <<>>
    /\ exit_status = None

IdleAlert ==
    /\ env = [ SUPABASE_URL |-> "", SUPABASE_SERVICE_ROLE_KEY |-> "", SMTP_HOST |-> "",
               SMTP_PORT |-> 0, SMTP_USER |-> "", SMTP_PASS |-> "", REPORT_TO |-> <<>>,
               REPORT_FROM |-> "", FORCE_SEND_OK |-> FALSE ]
    /\ pc = "idle"
    /\ th = None /\ w = None /\ rank = None
    /\ reasons = <<>>
    /\ is_alert = None
    /\ subject = None /\ body = None
    /\ rows_in = NoRows
    /\ send_calls = 0
    /\ net = <<>>
    /\ session = "none"
    /\ exc = ""
    /\ sent = <<>>
    /\ stdout = <<>>
    /\ exit_status = None

notAlertVars == <<evalVars, rankVars, monthlyVars>>

\* ------------------------------------------------------------------------
\* Ways a step of the run ends it
\* ------------------------------------------------------------------------
\* die(msg): print the message, sys.exit(1)
die(msg) ==
    /\ stdout' = Append(stdout, msg)
    /\ exit_status' = Some(1)
    /\ pc' = "done"

\* An exception nothing catches: traceback, exit status 1
Uncaught(e) ==
    /\ exc' = e
    /\ exit_status' = Some(1)
    /\ pc' = "done"

\* supabase_get: the request is made unless SUPABASE_URL is empty; it raises
\* on an empty URL and on a non-2xx response.
NetOp(op, ok) == [op |-> op, ok |-> ok]

supabase_get_net(path, resp) ==
    IF env.SUPABASE_URL = "" THEN net ELSE Append(net, NetOp(path, resp.ok))

\* supabase_get without the `if not r.ok` check of line 45
supabase_get_raises_NoStatusCheck(resp) == env.SUPABASE_URL = ""

supabase_get_raises(resp) == env.SUPABASE_URL = "" \/ ~resp.ok

\* ------------------------------------------------------------------------
\* main() of ocr_alert_check.py, one action per step
\* ------------------------------------------------------------------------
\* lines 253-254
CheckStoreConfig ==
    /\ pc = "main"
    /\ IF env.SUPABASE_URL = "" \/ env.SUPABASE_SERVICE_ROLE_KEY = ""
       THEN die("SUPABASE_URL / SUPABASE_SERVICE_ROLE_KEY unset")
       ELSE pc' = "fetch_thresholds" /\ UNCHANGED <<stdout, exit_status>>
    /\ UNCHANGED <<env, th, w, rank, reasons, is_alert, subject, body, rows_in, send_calls,
                   net, session, exc, sent>>
    /\ UNCHANGED notAlertVars

\* line 256, fetch_thresholds
FetchThresholds ==
    /\ pc = "fetch_thresholds"
    /\ \E resp \in ThResponses :
         /\ net' = supabase_get_net("GET ocr_alert_thresholds", resp)
         /\ IF supabase_get_raises(resp)
            THEN Uncaught("RuntimeError") /\ UNCHANGED <<th, rows_in>>
            ELSE /\ rows_in' = [rows_in EXCEPT !.thresholds = Some(resp.rows)]
                 /\ th' = Some(fetch_thresholds(resp.rows))
                 /\ pc' = "fetch_window_summary"
                 /\ UNCHANGED <<exc, exit_status>>
    /\ UNCHANGED <<env, w, rank, reasons, is_alert, subject, body, send_calls, session,
                   sent, stdout>>
    /\ UNCHANGED notAlertVars

\* line 257, fetch_window_summary: an empty result raises
FetchWindowSummary ==
    /\ pc = "fetch_window_summary"
    /\ \E resp \in WResponses :
         /\ net' = supabase_get_net("GET v_ocr_alert_window", resp)
         /\ IF supabase_get_raises(resp)
            THEN Uncaught("RuntimeError") /\ UNCHANGED <<w, rows_in>>
            ELSE /\ rows_in' = [rows_in EXCEPT !.window = Some(resp.rows)]
                 /\ IF resp.rows = <<>>
                    THEN Uncaught("RuntimeError") /\ UNCHANGED w
                    ELSE /\ w' = Some(resp.rows[1])
                         /\ pc' = "fetch_error_stage_rank"
                         /\ UNCHANGED <<exc, exit_status>>
    /\ UNCHANGED <<env, th, rank, reasons, is_alert, subject, body, send_calls, session,
                   sent, stdout>>
    /\ UNCHANGED notAlertVars

\* line 258, fetch_error_stage_rank
FetchErrorStageRank ==
    /\ pc = "fetch_error_stage_rank"
    /\ \E resp \in RankResponses :
         /\ net' = supabase_get_net("GET v_ocr_alert_error_stage_rank", resp)
         /\ IF supabase_get_raises(resp)
            THEN Uncaught("RuntimeError") /\ UNCHANGED <<rank, rows_in>>
            ELSE /\ rows_in' = [rows_in EXCEPT !.rank = Some(resp.rows)]
                 /\ rank' = Some(fetch_error_stage_rank(resp.rows))
                 /\ pc' = "evaluate"
                 /\ UNCHANGED <<exc, exit_status>>
    /\ UNCHANGED <<env, th, w, reasons, is_alert, subject, body, send_calls, session,
                   sent, stdout>>
    /\ UNCHANGED notAlertVars

\* lines 260-283
Evaluate ==
    /\ pc = "evaluate"
    /\ reasons' = Reasons(th[1], w[1])
    /\ is_alert' = Some(IsAlert(reasons'))
    /\ pc' = "build"
    /\ UNCHANGED <<env, th, w, rank, subject, body, rows_in, send_calls, net, session,
                   exc, sent, stdout, exit_status>>
    /\ UNCHANGED notAlertVars

\* lines 284-290
BuildReport ==
    /\ pc = "build"
    /\ subject' = Some(build_subject(is_alert[1], window_minutes(th[1], w[1])))
    /\ body' = Some(IF is_alert[1]
                    THEN build_body_alert(th[1], w[1], rank[1], reasons)
                    ELSE build_body_ok(th[1], w[1]))
    /\ pc' = "decide"
    /\ UNCHANGED <<env, th, w, rank, reasons, is_alert, rows_in, send_calls, net,
                   session, exc, sent, stdout, exit_status>>
    /\ UNCHANGED notAlertVars

ShouldSend_AlertOnly(alert, force) == alert

\* line 293
ShouldSend(alert, force) == alert \/ force

\* lines 293-297
DecideSend ==
    /\ pc = "decide"
    /\ IF ShouldSend(is_alert[1], env.FORCE_SEND_OK)
       THEN /\ send_calls' = send_calls + 1
            /\ pc' = "send_mail_smtp"
            /\ UNCHANGED <<stdout, exit_status>>
       ELSE /\ stdout' = Append(stdout, "OK (no alert)")
            /\ exit_status' = Some(0)
            /\ pc' = "done"
            /\ UNCHANGED send_calls
    /\ UNCHANGED <<env, th, w, rank, reasons, is_alert, subject, body, rows_in,
                   net, session, exc, sent>>
    /\ UNCHANGED notAlertVars

\* ------------------------------------------------------------------------
\* send_mail_smtp(subject, body), lines 84-106
\* ------------------------------------------------------------------------
\* The EmailMessage of lines 95-99
Message(from, tos, subj, bod) == [From |-> from, To |-> tos, Subject |-> subj, body |-> bod]

\* State of the session when the with-block is left without the context
\* manager closing it on an exception (plain s = SMTP(...); ...; s.quit()).
with_exit_QuitOnSuccessOnly(sess, e) == IF e = "" THEN "closed" ELSE sess

\* `with smtplib.SMTP(...) as s`: leaving the block, normally or by an
\* exception, quits and closes the session.
with_exit(sess, e) == "closed"

\* lines 85-93: the three configuration checks, in order
SendCheckConfig ==
    /\ pc = "send_mail_smtp"
    /\ IF env.REPORT_TO = <<>> \/ env.REPORT_FROM = ""
       THEN die("REPORT_TO / REPORT_FROM unset")
       ELSE IF ~(env.SMTP_HOST # "" /\ env.SMTP_PORT # 0 /\ env.SMTP_USER # ""
                 /\ env.SMTP_PASS # "")
       THEN die("SMTP_HOST/SMTP_PORT/SMTP_USER/SMTP_PASS unset")
       ELSE IF _parse_recipients(env.REPORT_TO) = <<>>
       THEN die("REPORT_TO malformed (no recipient)")
       ELSE pc' = "smtp_connect" /\ UNCHANGED <<stdout, exit_status>>
    /\ UNCHANGED <<env, th, w, rank, reasons, is_alert, subject, body, rows_in, send_calls,
                   net, session, exc, sent>>
    /\ UNCHANGED notAlertVars

\* line 101: smtplib.SMTP(host, port) connects; a failed connect raises and
\* leaves no session behind.
SmtpConnect ==
    /\ pc = "smtp_connect"
    /\ \E ok \in BOOLEAN :
         /\ net' = Append(net, NetOp("SMTP connect", ok))
         /\ IF ok
            THEN session' = "open" /\ pc' = "smtp_ehlo" /\ UNCHANGED <<exc, exit_status>>
            ELSE Uncaught("OSError") /\ UNCHANGED session
    /\ UNCHANGED <<env, th, w, rank, reasons, is_alert, subject, body, rows_in, send_calls,
                   sent, stdout>>
    /\ UNCHANGED notAlertVars

\* A command inside the with-block: it succeeds, or raises and the block is left.
SmtpCommand(here, op, next) ==
    /\ pc = here
    /\ session = "open"
    /\ \E ok \in BOOLEAN :
         /\ net' = Append(net, NetOp(op, ok))
         /\ IF ok
            THEN pc' = next /\ UNCHANGED exc
            ELSE pc' = "smtp_exit" /\ exc' = "SMTPException"
    /\ UNCHANGED <<env, th, w, rank, reasons, is_alert, subject, body, rows_in, send_calls,
                   session, sent, stdout, exit_status>>
    /\ UNCHANGED notAlertVars

\* line 102
SmtpEhlo == SmtpCommand("smtp_ehlo", "SMTP ehlo", "smtp_starttls")

\* line 103
SmtpStartTls == SmtpCommand("smtp_starttls", "SMTP starttls", "smtp_ehlo2")

\* line 104
SmtpEhlo2 == SmtpCommand("smtp_ehlo2", "SMTP ehlo (tls)", "smtp_login")

\* line 105
SmtpLogin == SmtpCommand("smtp_login", "SMTP login", "smtp_send_message")

\* line 106
SmtpSendMessage ==
    /\ pc = "smtp_send_message"
    /\ session = "open"
    /\ \E ok \in BOOLEAN :
         /\ net' = Append(net, NetOp("SMTP send_message", ok))
         /\ IF ok
            THEN /\ sent' = Append(sent, Message(env.REPORT_FROM,
                                                 _parse_recipients(env.REPORT_TO),
                                                 subject[1], body[1]))
                 /\ pc' = "smtp_exit"
                 /\ UNCHANGED exc
            ELSE pc' = "smtp_exit" /\ exc' = "SMTPException" /\ UNCHANGED sent
    /\ UNCHANGED <<env, th, w, rank, reasons, is_alert, subject, body, rows_in, send_calls,
                   session, stdout, exit_status>>
    /\ UNCHANGED notAlertVars

\* leaving the with-block of line 101
SmtpExit ==
    /\ pc = "smtp_exit"
    /\ session' = with_exit(session, exc)
    /\ IF exc # ""
       THEN exit_status' = Some(1) /\ pc' = "done"
       ELSE pc' = "mail_sent" /\ UNCHANGED exit_status
    /\ UNCHANGED <<env, th, w, rank, reasons, is_alert, subject, body, rows_in, send_calls,
                   net, exc, sent, stdout>>
    /\ UNCHANGED notAlertVars

\* line 295
PrintMailSent ==
    /\ pc = "mail_sent"
    /\ stdout' = Append(stdout, "MAIL sent")
    /\ exit_status' = Some(0)
    /\ pc' = "done"
    /\ UNCHANGED <<env, th, w, rank, reasons, is_alert, subject, body, rows_in, send_calls,
                   net, session, exc, sent>>
    /\ UNCHANGED notAlertVars

NextAlert ==
    \/ CheckStoreConfig
    \/ FetchThresholds
    \/ FetchWindowSummary
    \/ FetchErrorStageRank
    \/ Evaluate
    \/ BuildReport
    \/ DecideSend
    \/ SendCheckConfig
    \/ SmtpConnect
    \/ SmtpEhlo
    \/ SmtpStartTls
    \/ SmtpEhlo2
    \/ SmtpLogin
    \/ SmtpSendMessage
    \/ SmtpExit
    \/ PrintMailSent

\* ------------------------------------------------------------------------
\* The alert rules of main() (lines 260-283) applied to every thresholds
\* record and window row of a bounded set, one rule per step
\* ------------------------------------------------------------------------
EvThresholds ==
    { ThRow(Some(DEFAULT_WINDOW_MINUTES), mfc, mfr, mlq, mhu) :
        mfc \in {None, Some(0), Some(5)},
        mfr \in {None, Some(0), Some(20)},
        mlq \in {None, Some(0), Some(20)},
        mhu \in {None, Some(0), Some(20)} }
    \cup {DefaultThresholds}

EvWindows ==
    { WRow(Some(DEFAULT_WINDOW_MINUTES), total, fail, fr, lq, hu) :
        total \in {None, Some(3), Some(10)},
        fail \in {None, Some(5), Some(6)},
        fr \in {None, Some(10), Some(20), Some(30)},
        lq \in {None, Some(10), Some(20), Some(30)},
        hu \in {None, Some(10), Some(20), Some(30)} }

InitEval ==
    /\ ev_pc = "rule_fail_count"
    /\ ev_th \in EvThresholds
    /\ ev_w \in EvWindows
    /\ ev_reasons = <<>>
    /\ ev_alert = None

IdleEval ==
    /\ ev_pc = "idle"
    /\ ev_th = DefaultThresholds
    /\ ev_w = WRow(None, None, None, None, None, None)
    /\ ev_reasons = <<>>
    /\ ev_alert = None

notEvalVars == <<alertVars, rankVars, monthlyVars>>

\* lines 272-273
EvalFailCount ==
    /\ ev_pc = "rule_fail_count"
    /\ ev_reasons' = AppendFailCount(ev_reasons, ev_th, ev_w)
    /\ ev_pc' = "rule_fail_rate"
    /\ UNCHANGED <<ev_th, ev_w, ev_alert>>
    /\ UNCHANGED notEvalVars

\* lines 276-277
EvalFailRate ==
    /\ ev_pc = "rule_fail_rate"
    /\ ev_reasons' = AppendFailRate(ev_reasons, ev_th, ev_w)
    /\ ev_pc' = "rule_low_quality_rate"
    /\ UNCHANGED <<ev_th, ev_w, ev_alert>>
    /\ UNCHANGED notEvalVars

\* lines 278-279
EvalLowQuality ==
    /\ ev_pc = "rule_low_quality_rate"
    /\ ev_reasons' = AppendLowQuality(ev_reasons, ev_th, ev_w)
    /\ ev_pc' = "rule_high_unknown_rate"
    /\ UNCHANGED <<ev_th, ev_w, ev_alert>>
    /\ UNCHANGED notEvalVars

\* lines 280-281
EvalHighUnknown ==
    /\ ev_pc = "rule_high_unknown_rate"
    /\ ev_reasons' = AppendHighUnknown(ev_reasons, ev_th, ev_w)
    /\ ev_pc' = "is_alert"
    /\ UNCHANGED <<ev_th, ev_w, ev_alert>>
    /\ UNCHANGED notEvalVars

\* line 283
EvalIsAlert ==
    /\ ev_pc = "is_alert"
    /\ ev_alert' = Some(IsAlert(ev_reasons))
    /\ ev_pc' = "done"
    /\ UNCHANGED <<ev_th, ev_w, ev_reasons>>
    /\ UNCHANGED notEvalVars

NextEval ==
    \/ EvalFailCount
    \/ EvalFailRate
    \/ EvalLowQuality
    \/ EvalHighUnknown
    \/ EvalIsAlert

\* ------------------------------------------------------------------------
\* fetch_high_risk_ranking(start, end, limit), send_ocr_monthly_report.py
\* lines 56-85, on the daily rows the store returned
\* ------------------------------------------------------------------------
DEFAULT_LIMIT == 5
MaxRows == 3
MaxLimit == 2

\* Identities (code, name_ja, category, risk_level) of detected items: two
\* share the code and differ in the name, one has no name and no category.
Items ==
    { [code |-> "A", name_ja |-> Some("n1"), category |-> Some("c1"), risk_level |-> 3],
      [code |-> "A", name_ja |-> Some("n2"), category |-> Some("c1"), risk_level |-> 3],
      [code |-> "B", name_ja |-> None,       category |-> None,       risk_level |-> 2] }

\* detect_count is a non-null count
DetectCounts == {0, 3, 5}

DailyRows ==
    { [code |-> it.code, name_ja |-> it.name_ja, category |-> it.category,
       risk_level |-> it.risk_level, detect_count |-> n] :
      it \in Items, n \in DetectCounts }

SeqsUpTo(S, n) == UNION { [1..k -> S] : k \in 0..n }

\* line 68
Key(r) == <<r.code, r.name_ja, r.category, r.risk_level>>

AggAdd_Overwrite(agg, r) ==
    IF \E j \in 1..Len(agg) : agg[j].key = Key(r)
    THEN LET j == CHOOSE k \in 1..Len(agg) : agg[k].key = Key(r)
         IN  [agg EXCEPT ![j].cnt = r.detect_count]
    ELSE Append(agg, [key |-> Key(r), cnt |-> r.detect_count])

\* lines 68-70, one iteration of the loop; agg is the dict, in insertion order
AggAdd(agg, r) ==
    IF \E j \in 1..Len(agg) : agg[j].key = Key(r)
    THEN LET j == CHOOSE k \in 1..Len(agg) : agg[k].key = Key(r)
         IN  [agg EXCEPT ![j].cnt = @ + r.detect_count]
    ELSE Append(agg, [key |-> Key(r), cnt |-> 0 + r.detect_count])

\* lines 66-70
RECURSIVE Aggregate(_)
Aggregate(rows) ==
    IF rows = <<>> THEN <<>>
    ELSE AggAdd(Aggregate(SubSeq(rows, 1, Len(rows) - 1)), rows[Len(rows)])

\* lines 72-82
BuildResult(agg) ==
    [ i \in 1..Len(agg) |->
        [ code        |-> agg[i].key[1],
          name_ja     |-> agg[i].key[2],
          category    |-> agg[i].key[3],
          risk_level  |-> agg[i].key[4],
          total_count |-> agg[i].cnt ] ]

RECURSIVE InsertDesc(_, _)
InsertDesc(sorted, x) ==
    IF sorted = <<>> THEN <<x>>
    ELSE IF sorted[1].total_count >= x.total_count
         THEN <<sorted[1]>> \o InsertDesc(Tail(sorted), x)
         ELSE <<x>> \o sorted

\* line 84: result.sort(key=total_count, reverse=True), a stable sort
RECURSIVE SortDesc(_)
SortDesc(s) ==
    IF s = <<>> THEN <<>>
    ELSE InsertDesc(SortDesc(SubSeq(s, 1, Len(s) - 1)), s[Len(s)])

\* line 85: result[:limit], limit >= 0
Take(s, limit) == SubSeq(s, 1, IF limit < Len(s) THEN limit ELSE Len(s))

fetch_high_risk_ranking(rows, limit) ==
    Take(SortDesc(BuildResult(Aggregate(rows))), limit)

InitRank ==
    /\ rk_pc = "aggregate"
    /\ rk_rows \in SeqsUpTo(DailyRows, MaxRows)
    /\ rk_limit \in (1..MaxLimit) \cup {DEFAULT_LIMIT}
    /\ rk_agg = <<>>
    /\ rk_result = <<>>
    /\ rk_i = 1

IdleRank ==
    /\ rk_pc = "idle"
    /\ rk_rows = <<>>
    /\ rk_limit = DEFAULT_LIMIT
    /\ rk_agg = <<>>
    /\ rk_result = <<>>
    /\ rk_i = 1

notRankVars == <<alertVars, evalVars, monthlyVars>>

\* lines 67-70: one iteration of `for r in rows`
RankAggregateRow ==
    /\ rk_pc = "aggregate"
    /\ rk_i <= Len(rk_rows)
    /\ rk_agg' = AggAdd(rk_agg, rk_rows[rk_i])
    /\ rk_i' = rk_i + 1
    /\ UNCHANGED <<rk_pc, rk_rows, rk_limit, rk_result>>
    /\ UNCHANGED notRankVars

\* lines 72-82
RankBuildResult ==
    /\ rk_pc = "aggregate"
    /\ rk_i > Len(rk_rows)
    /\ rk_result' = BuildResult(rk_agg)
    /\ rk_pc' = "sort"
    /\ UNCHANGED <<rk_rows, rk_limit, rk_agg, rk_i>>
    /\ UNCHANGED notRankVars

\* line 84
RankSort ==
    /\ rk_pc = "sort"
    /\ rk_result' = SortDesc(rk_result)
    /\ rk_pc' = "slice"
    /\ UNCHANGED <<rk_rows, rk_limit, rk_agg, rk_i>>
    /\ UNCHANGED notRankVars

\* line 85
RankReturn ==
    /\ rk_pc = "slice"
    /\ rk_result' = Take(rk_result, rk_limit)
    /\ rk_pc' = "returned"
    /\ UNCHANGED <<rk_rows, rk_limit, rk_agg, rk_i>>
    /\ UNCHANGED notRankVars

NextRank ==
    \/ RankAggregateRow
    \/ RankBuildResult
    \/ RankSort
    \/ RankReturn

\* ------------------------------------------------------------------------
\* send_ocr_monthly_report.py: one run of the module
\* ------------------------------------------------------------------------
\* The date range of get_last_month_range only parameterizes the two queries
\* and the title of the report; the rows the store returns are inputs here.
\* Settings read at import (lines 14-23); an unset variable is "".
MonthlyEnvSet ==
    [ SUPABASE_URL : {"", "https://db"},
      SUPABASE_SERVICE_ROLE_KEY : {"", "key"},
      SMTP_USER : {"", "user"},
      SMTP_PASS : {"", "pass"},
      REPORT_TO : {"", "admin@x"} ]

MonthRows ==
    { [scan_count |-> 120, any_fail_count |-> 3, error_rate_pct |-> 2,
       avg_duration_ms |-> 850, user_count |-> 14] }

\* The daily-row lists the store returns in a monthly run.
MonthlyDailyRows == SeqsUpTo(DailyRows, MaxRows - 1)

\* lines 52-53: rows[0] if rows else None
fetch_monthly_summary(rows) == IF rows = <<>> THEN None ELSE Some(rows[1])

\* lines 114-125: one numbered line per ranked item, placeholders for a
\* missing name or category; a marker line when the list is empty
RankingLine(i, item) ==
    [ no       |-> i,
      name     |-> IF item.name_ja = None \/ item.name_ja[1] = ""
                   THEN "(unknown name)" ELSE item.name_ja[1],
      code     |-> IF item.code = "" THEN "-" ELSE item.code,
      category |-> IF item.category = None \/ item.category[1] = ""
                   THEN "-" ELSE item.category[1],
      risk     |-> item.risk_level,
      cnt      |-> item.total_count ]

build_report_body_AbsentAsEmptyReport(month_row, high_risk_list) ==
    [ kind |-> "report", metrics |-> month_row, ranking |-> <<>>,
      no_high_risk |-> TRUE ]

\* lines 88-130
build_report_body(month_row, high_risk_list) ==
    IF month_row = None
    THEN [ kind |-> "no_data", metrics |-> None, ranking |-> <<>>,
           no_high_risk |-> FALSE ]
    ELSE [ kind |-> "report",
           metrics |-> month_row,
           ranking |-> [i \in 1..Len(high_risk_list) |-> RankingLine(i, high_risk_list[i])],
           no_high_risk |-> (high_risk_list = <<>>) ]

InitMonthly ==
    /\ m_env \in MonthlyEnvSet
    /\ m_pc = "import"
    /\ m_month_row = None
    /\ m_list = <<>>
    /\ m_body = None
    /\ m_send_calls = 0
    /\ m_net = <<>>
    /\ m_session = "none"
    /\ m_exc = ""
    /\ m_sent = <<>>
    /\ m_stdout = <<>>
    /\ m_exit = None

IdleMonthly ==
    /\ m_env = [ SUPABASE_URL |-> "", SUPABASE_SERVICE_ROLE_KEY |-> "", SMTP_USER |-> "",
                 SMTP_PASS |-> "", REPORT_TO |-> "" ]
    /\ m_pc = "idle"
    /\ m_month_row = None
    /\ m_list = <<>>
    /\ m_body = None
    /\ m_send_calls = 0
    /\ m_net = <<>>
    /\ m_session = "none"
    /\ m_exc = ""
    /\ m_sent = <<>>
    /\ m_stdout = <<>>
    /\ m_exit = None

notMonthlyVars == <<alertVars, evalVars, rankVars>>

\* An exception nothing catches: traceback, exit status 1
MUncaught(e) ==
    /\ m_exc' = e
    /\ m_exit' = Some(1)
    /\ m_pc' = "done"

\* lines 25-31: the checks made at import
MImport ==
    /\ m_pc = "import"
    /\ IF ~(m_env.SUPABASE_URL # "" /\ m_env.SUPABASE_SERVICE_ROLE_KEY # "")
       THEN MUncaught("RuntimeError")
       ELSE IF ~(m_env.SMTP_USER # "" /\ m_env.SMTP_PASS # "" /\ m_env.REPORT_TO # "")
       THEN MUncaught("RuntimeError")
       ELSE m_pc' = "fetch_monthly_summary" /\ UNCHANGED <<m_exc, m_exit>>
    /\ UNCHANGED <<m_env, m_month_row, m_list, m_body, m_send_calls, m_net, m_session,
                   m_sent, m_stdout>>
    /\ UNCHANGED notMonthlyVars

\* line 149, fetch_monthly_summary: the query raises, or returns rows
MFetchSummary ==
    /\ m_pc = "fetch_monthly_summary"
    /\ \/ /\ m_net' = Append(m_net, NetOp("SELECT v_ocr_scan_monthly_summary", FALSE))
          /\ MUncaught("APIError")
          /\ UNCHANGED m_month_row
       \/ \E rows \in SeqsUpTo(MonthRows, 1) :
            /\ m_net' = Append(m_net, NetOp("SELECT v_ocr_scan_monthly_summary", TRUE))
            /\ m_month_row' = fetch_monthly_summary(rows)
            /\ m_pc' = "fetch_high_risk_ranking"
            /\ UNCHANGED <<m_exc, m_exit>>
    /\ UNCHANGED <<m_env, m_list, m_body, m_send_calls, m_session, m_sent, m_stdout>>
    /\ UNCHANGED notMonthlyVars

\* line 150, fetch_high_risk_ranking(start, end, limit=5)
MFetchRanking ==
    /\ m_pc = "fetch_high_risk_ranking"
    /\ \/ /\ m_net' = Append(m_net, NetOp("SELECT v_ocr_high_risk_additives_daily", FALSE))
          /\ MUncaught("APIError")
          /\ UNCHANGED m_list
       \/ \E rows \in MonthlyDailyRows :
            /\ m_net' = Append(m_net, NetOp("SELECT v_ocr_high_risk_additives_daily", TRUE))
            /\ m_list' = fetch_high_risk_ranking(rows, DEFAULT_LIMIT)
            /\ m_pc' = "build_report_body"
            /\ UNCHANGED <<m_exc, m_exit>>
    /\ UNCHANGED <<m_env, m_month_row, m_body, m_send_calls, m_session, m_sent, m_stdout>>
    /\ UNCHANGED notMonthlyVars

\* lines 152-153
MBuildReport ==
    /\ m_pc = "build_report_body"
    /\ m_body' = Some(build_report_body(m_month_row, m_list))
    /\ m_pc' = "send_mail"
    /\ UNCHANGED <<m_env, m_month_row, m_list, m_send_calls, m_net, m_session, m_exc,
                   m_sent, m_stdout, m_exit>>
    /\ UNCHANGED notMonthlyVars

\* lines 155 and 141: send_mail is called and connects; a failed connect
\* raises and leaves no session behind.
MSmtpConnect ==
    /\ m_pc = "send_mail"
    /\ m_send_calls' = m_send_calls + 1
    /\ \E ok \in BOOLEAN :
         /\ m_net' = Append(m_net, NetOp("SMTP connect", ok))
         /\ IF ok
            THEN m_session' = "open" /\ m_pc' = "smtp_starttls" /\ UNCHANGED <<m_exc, m_exit>>
            ELSE MUncaught("OSError") /\ UNCHANGED m_session
    /\ UNCHANGED <<m_env, m_month_row, m_list, m_body, m_sent, m_stdout>>
    /\ UNCHANGED notMonthlyVars

MSmtpCommand(here, op, next) ==
    /\ m_pc = here
    /\ m_session = "open"
    /\ \E ok \in BOOLEAN :
         /\ m_net' = Append(m_net, NetOp(op, ok))
         /\ IF ok
            THEN m_pc' = next /\ UNCHANGED m_exc
            ELSE m_pc' = "smtp_exit" /\ m_exc' = "SMTPException"
    /\ UNCHANGED <<m_env, m_month_row, m_list, m_body, m_send_calls, m_session, m_sent,
                   m_stdout, m_exit>>
    /\ UNCHANGED notMonthlyVars

\* line 142
MSmtpStartTls == MSmtpCommand("smtp_starttls", "SMTP starttls", "smtp_login")

\* line 143
MSmtpLogin == MSmtpCommand("smtp_login", "SMTP login", "smtp_send_message")

\* line 144
MSmtpSendMessage ==
    /\ m_pc = "smtp_send_message"
    /\ m_session = "open"
    /\ \E ok \in BOOLEAN :
         /\ m_net' = Append(m_net, NetOp("SMTP send_message", ok))
         /\ IF ok
            THEN /\ m_sent' = Append(m_sent, [To |-> m_env.REPORT_TO, body |-> m_body[1]])
                 /\ m_pc' = "smtp_exit"
                 /\ UNCHANGED m_exc
            ELSE m_pc' = "smtp_exit" /\ m_exc' = "SMTPException" /\ UNCHANGED m_sent
    /\ UNCHANGED <<m_env, m_month_row, m_list, m_body, m_send_calls, m_session, m_stdout,
                   m_exit>>
    /\ UNCHANGED notMonthlyVars

\* leaving the with-block of line 141
MSmtpExit ==
    /\ m_pc = "smtp_exit"
    /\ m_session' = with_exit(m_session, m_exc)
    /\ IF m_exc # ""
       THEN m_exit' = Some(1) /\ m_pc' = "done"
       ELSE m_pc' = "report_sent" /\ UNCHANGED m_exit
    /\ UNCHANGED <<m_env, m_month_row, m_list, m_body, m_send_calls, m_net, m_exc, m_sent,
                   m_stdout>>
    /\ UNCHANGED notMonthlyVars

\* line 156
MPrintSent ==
    /\ m_pc = "report_sent"
    /\ m_stdout' = Append(m_stdout, "Monthly report sent.")
    /\ m_exit' = Some(0)
    /\ m_pc' = "done"
    /\ UNCHANGED <<m_env, m_month_row, m_list, m_body, m_send_calls, m_net, m_session,
                   m_exc, m_sent>>
    /\ UNCHANGED notMonthlyVars

NextMonthly ==
    \/ MImport
    \/ MFetchSummary
    \/ MFetchRanking
    \/ MBuildReport
    \/ MSmtpConnect
    \/ MSmtpStartTls
    \/ MSmtpLogin
    \/ MSmtpSendMessage
    \/ MSmtpExit
    \/ MPrintSent

\* ------------------------------------------------------------------------
\* Specifications
\* ------------------------------------------------------------------------
\* One run of ocr_alert_check.py
Init == InitAlert /\ IdleEval /\ IdleRank /\ IdleMonthly
Next == NextAlert
Spec == Init /\ [][Next]_vars

\* The alert rules on every input of the bounded sets
EvalInit == IdleAlert /\ InitEval /\ IdleRank /\ IdleMonthly
SpecEval == EvalInit /\ [][NextEval]_vars

\* fetch_high_risk_ranking on every input of the bounded sets
RankInit == IdleAlert /\ IdleEval /\ InitRank /\ IdleMonthly
SpecRank == RankInit /\ [][NextRank]_vars

\* One run of send_ocr_monthly_report.py
MonthlyInit == IdleAlert /\ IdleEval /\ IdleRank /\ InitMonthly
SpecMonthly == MonthlyInit /\ [][NextMonthly]_vars

\* One run of either script
SendersInit == Init \/ MonthlyInit
NextSenders == NextAlert \/ NextMonthly
SpecSenders == SendersInit /\ [][NextSenders]_vars

\* ========================================================================
\* Properties
\* ========================================================================
\* The window's values as the rules read them: a missing field counts as 0.
ValueOr0(x) == IF x = None THEN 0 ELSE x[1]

\* A threshold as main() resolves it at lines 267-270: the row's value, or
\* the default when the row has none or has 0.
Resolved(x, d) == IF x = None \/ x = Some(0) THEN d ELSE x[1]

RuleNames(rs) == { rs[i].rule : i \in 1..Len(rs) }

RateRules == {"fail_rate", "low_quality_rate", "high_unknown_rate"}

\* ---- C1 ----------------------------------------------------------------
\* C1: with total_count < 10 no rate rule ever contributes a reason, whatever
\* the rates and the thresholds row are; once the rules have run, reasons is
\* exactly the fail_count reason when fail_count >= max_fail_count and empty
\* otherwise, and is_alert says which (max_fail_count as resolved at line 267).
C1_SmallWindowOnlyFailCount ==
    (ev_pc # "idle" /\ ValueOr0(ev_w.total_count) < 10) =>
        LET fc  == ValueOr0(ev_w.fail_count)
            mfc == Resolved(ev_th.max_fail_count, 5)
        IN  /\ RuleNames(ev_reasons) \cap RateRules = {}
            /\ ev_pc = "done" =>
                 /\ ev_alert = Some(fc >= mfc)
                 /\ ev_reasons = IF fc >= mfc
                                 THEN << [rule |-> "fail_count", value |-> fc, threshold |-> mfc] >>
                                 ELSE <<>>

\* fail_count=6, max_fail_count=5, total_count=3 with every rate above its
\* threshold: alert, with exactly the fail_count reason
C1_Witness ==
    /\ ev_pc = "done"
    /\ ev_w.total_count = Some(3)
    /\ ev_w.fail_count = Some(6)
    /\ ev_th.max_fail_count = Some(5)
    /\ ev_w.fail_rate = Some(30) /\ ev_th.max_fail_rate = Some(20)
    /\ ev_w.low_quality_rate = Some(30) /\ ev_th.max_low_quality_rate = Some(20)
    /\ ev_w.high_unknown_rate = Some(30) /\ ev_th.max_high_unknown_rate = Some(20)
    /\ ev_alert = Some(TRUE)
    /\ Len(ev_reasons) = 1

\* ---- C2 ----------------------------------------------------------------
\* C2, as claimed: with total_count >= 10, each rate rule contributes its reason
\* iff the window's rate is >= the threshold value held by the thresholds row
\* (stated for rows and windows that hold all three values).
C2_RateRuleIffRowThreshold ==
    ( /\ ev_pc = "done"
      /\ ValueOr0(ev_w.total_count) >= 10
      /\ ev_th.max_fail_rate # None /\ ev_w.fail_rate # None
      /\ ev_th.max_low_quality_rate # None /\ ev_w.low_quality_rate # None
      /\ ev_th.max_high_unknown_rate # None /\ ev_w.high_unknown_rate # None ) =>
        /\ ("fail_rate" \in RuleNames(ev_reasons))
              <=> (ev_w.fail_rate[1] >= ev_th.max_fail_rate[1])
        /\ ("low_quality_rate" \in RuleNames(ev_reasons))
              <=> (ev_w.low_quality_rate[1] >= ev_th.max_low_quality_rate[1])
        /\ ("high_unknown_rate" \in RuleNames(ev_reasons))
              <=> (ev_w.high_unknown_rate[1] >= ev_th.max_high_unknown_rate[1])

\* ---- C3 ----------------------------------------------------------------
\* The condition of each rule, thresholds as resolved at lines 267-270.
RuleHolds(rule, t, wr) ==
    CASE rule = "fail_count" ->
           ValueOr0(wr.fail_count) >= Resolved(t.max_fail_count, 5)
      [] rule = "fail_rate" ->
           ValueOr0(wr.total_count) >= 10
           /\ ValueOr0(wr.fail_rate) >= Resolved(t.max_fail_rate, 20)
      [] rule = "low_quality_rate" ->
           ValueOr0(wr.total_count) >= 10
           /\ ValueOr0(wr.low_quality_rate) >= Resolved(t.max_low_quality_rate, 30)
      [] rule = "high_unknown_rate" ->
           ValueOr0(wr.total_count) >= 10
           /\ ValueOr0(wr.high_unknown_rate) >= Resolved(t.max_high_unknown_rate, 30)

RuleOrder == <<"fail_count", "fail_rate", "low_quality_rate", "high_unknown_rate">>

\* C3: once the rules have run, reasons names exactly the rules whose condition
\* holds, each once, in the order fail_count, fail_rate, low_quality_rate,
\* high_unknown_rate (no rule is skipped because an earlier one fired), and
\* is_alert is true iff reasons is non-empty.
C3_IndependentRulesInOrder ==
    ev_pc = "done" =>
        /\ [i \in 1..Len(ev_reasons) |-> ev_reasons[i].rule]
              = SelectSeq(RuleOrder, LAMBDA r : RuleHolds(r, ev_th, ev_w))
        /\ ev_alert = Some(ev_reasons # <<>>)

\* all four rules fire on one input
C3_Witness ==
    /\ ev_pc = "done"
    /\ Len(ev_reasons) = 4
    /\ ev_alert = Some(TRUE)

\* ---- shared vocabulary of the run properties ----------------------------
NetOps(log) == { log[i].op : i \in 1..Len(log) }

StoreOps ==
    {"GET ocr_alert_thresholds", "GET v_ocr_alert_window", "GET v_ocr_alert_error_stage_rank"}

SmtpOps ==
    {"SMTP connect", "SMTP ehlo", "SMTP starttls", "SMTP ehlo (tls)", "SMTP login",
     "SMTP send_message"}

\* Positions of the run after the send decision of line 293
AfterDecision ==
    {"send_mail_smtp", "smtp_connect", "smtp_ehlo", "smtp_starttls", "smtp_ehlo2",
     "smtp_login", "smtp_send_message", "smtp_exit", "mail_sent", "done"}

MailConfigErrors ==
    {"REPORT_TO / REPORT_FROM unset", "SMTP_HOST/SMTP_PORT/SMTP_USER/SMTP_PASS unset",
     "REPORT_TO malformed (no recipient)"}

\* ---- C4 ----------------------------------------------------------------
\* C4: once the run is past the decision of line 293, send_mail_smtp has been
\* called (once) iff is_alert or FORCE_SEND_OK; when neither holds the run has
\* ended with status 0 without any SMTP operation and without a session; the
\* body built, and the body of any message sent, is the ALERT body when
\* is_alert and the OK body otherwise.  Before the decision nothing is sent.
C4_SendIffAlertOrForced ==
    /\ (body # None) => (body[1].kind = IF is_alert[1] THEN "ALERT" ELSE "OK")
    /\ \A i \in 1..Len(sent) : sent[i].body = body[1]
    /\ (is_alert = None \/ pc \notin AfterDecision) =>
          (send_calls = 0 /\ NetOps(net) \cap SmtpOps = {} /\ session = "none")
    /\ (is_alert # None /\ pc \in AfterDecision) =>
          /\ (send_calls = 1) <=> (is_alert[1] \/ env.FORCE_SEND_OK)
          /\ send_calls \in {0, 1}
          /\ ~(is_alert[1] \/ env.FORCE_SEND_OK) =>
                /\ pc = "done" /\ exit_status = Some(0)
                /\ NetOps(net) \cap SmtpOps = {}
                /\ session = "none"
                /\ sent = <<>>

\* a forced OK report is delivered
C4_Witness ==
    /\ pc = "done"
    /\ is_alert = Some(FALSE)
    /\ env.FORCE_SEND_OK
    /\ send_calls = 1
    /\ Len(sent) = 1
    /\ sent[1].body.kind = "OK"

\* ---- C5 ----------------------------------------------------------------
\* C5, as claimed: a run that ends with a mail configuration error (missing
\* SMTP host/port/user/password, missing sender or recipients) has made no
\* network call: no store query and no mail connection.
C5_MailConfigErrorBeforeAnyNetwork ==
    (pc = "done" /\ stdout # <<>> /\ stdout[Len(stdout)] \in MailConfigErrors) =>
        net = <<>>

\* ---- C6 ----------------------------------------------------------------
\* The run has completed the whole pipeline: three fetches, the evaluation,
\* the report, and the send when one is due.
PipelineCompleted ==
    /\ th # None /\ w # None /\ rank # None
    /\ is_alert # None /\ subject # None /\ body # None
    /\ \A i \in 1..Len(net) : net[i].ok
    /\ IF is_alert[1] \/ env.FORCE_SEND_OK
       THEN Len(sent) = 1 /\ session = "closed"
            /\ [i \in 1..Len(net) |-> net[i].op]
                  = << "GET ocr_alert_thresholds", "GET v_ocr_alert_window",
                       "GET v_ocr_alert_error_stage_rank", "SMTP connect", "SMTP ehlo",
                       "SMTP starttls", "SMTP ehlo (tls)", "SMTP login",
                       "SMTP send_message" >>
       ELSE sent = <<>>
            /\ [i \in 1..Len(net) |-> net[i].op]
                  = << "GET ocr_alert_thresholds", "GET v_ocr_alert_window",
                       "GET v_ocr_alert_error_stage_rank" >>

\* C6: no retry and no partial success.  Every network operation occurs at most
\* once in a run; a failed operation is the last operation of the run, and so
\* is a window query that returned no row; after a failed fetch nothing is sent
\* and no mail session is opened; a run in which a fetch or the send failed
\* ends with status 1; a run ends with status 0 only when the whole pipeline
\* completed.
C6_NoRetryNoPartialSuccess ==
    /\ \A i, j \in 1..Len(net) : (i # j) => (net[i].op # net[j].op)
    /\ \A i \in 1..Len(net) : ~net[i].ok => i = Len(net)
    /\ Len(sent) <= 1
    /\ \A i \in 1..Len(net) :
          (~net[i].ok /\ net[i].op \in StoreOps) =>
              (sent = <<>> /\ session = "none" /\ pc = "done" /\ exit_status = Some(1))
    /\ (rows_in.window = Some(<<>>)) =>
          /\ pc = "done" /\ exit_status = Some(1)
          /\ net[Len(net)].op = "GET v_ocr_alert_window"
          /\ sent = <<>> /\ session = "none"
    /\ (\E i \in 1..Len(net) : ~net[i].ok) =>
          (pc \in {"smtp_exit", "done"} /\ (pc = "done" => exit_status = Some(1)))
    /\ (exit_status = Some(0)) => PipelineCompleted

\* a failed window query ends the run after two store operations
C6_Witness ==
    /\ pc = "done"
    /\ exit_status = Some(1)
    /\ Len(net) = 2
    /\ net[1].ok /\ ~net[2].ok
    /\ net[2].op = "GET v_ocr_alert_window"
    /\ sent = <<>>

\* ---- C7 ----------------------------------------------------------------
\* C7: an empty window-summary result ends the run with status 1 before any
\* evaluation and without any mail; an empty thresholds result makes the run
\* go on with the default set (60, 5, 0.20, 40, 0.30, 0.50, 0.30), and the
\* evaluation uses these values; an empty stage-rank result makes the run go on
\* with an empty list of failing stages.
C7_EmptyResults ==
    /\ (rows_in.window = Some(<<>>)) =>
          /\ pc = "done" /\ exit_status = Some(1)
          /\ w = None /\ is_alert = None /\ reasons = <<>>
          /\ sent = <<>> /\ NetOps(net) \cap SmtpOps = {}
    /\ (rows_in.thresholds = Some(<<>>)) =>
          /\ th = Some([ window_minutes          |-> Some(60),
                         max_fail_count          |-> Some(5),
                         max_fail_rate           |-> Some(20),
                         quality_score_threshold |-> Some(40),
                         max_low_quality_rate    |-> Some(30),
                         unknown_ratio_threshold |-> Some(50),
                         max_high_unknown_rate   |-> Some(30) ])
          /\ (Len(net) = 1) => (pc = "fetch_window_summary" /\ exit_status = None)
          /\ (is_alert # None) =>
                \A i \in 1..Len(reasons) :
                    reasons[i].threshold =
                        (IF reasons[i].rule = "fail_count" THEN 5
                         ELSE IF reasons[i].rule = "fail_rate" THEN 20 ELSE 30)
    /\ (rows_in.rank = Some(<<>>)) =>
          /\ rank = Some(<<>>)
          /\ (Len(net) = 3) => (exc = "" /\ pc # "fetch_error_stage_rank")
          /\ (body # None /\ is_alert = Some(TRUE)) =>
                body[1].stages = << [stage |-> "(none)", cnt |-> 0] >>

\* empty thresholds and empty stage rank, and the run still alerts and sends
C7_Witness ==
    /\ pc = "done"
    /\ exit_status = Some(0)
    /\ rows_in.thresholds = Some(<<>>)
    /\ rows_in.rank = Some(<<>>)
    /\ is_alert = Some(TRUE)
    /\ Len(sent) = 1

\* ---- C8 ----------------------------------------------------------------
\* C8: in both senders the session is open only inside the with-block; when
\* the block has been left, by success or by a failed command, and in every
\* terminal state of a run, the session is not open.
C8_SessionNeverLeftOpen ==
    /\ (session = "open") =>
          pc \in {"smtp_ehlo", "smtp_starttls", "smtp_ehlo2", "smtp_login",
                  "smtp_send_message", "smtp_exit"}
    /\ (pc \in {"mail_sent", "done"}) => session # "open"
    /\ (m_session = "open") =>
          m_pc \in {"smtp_starttls", "smtp_login", "smtp_send_message", "smtp_exit"}
    /\ (m_pc \in {"report_sent", "done"}) => m_session # "open"

\* a command failed inside the with-block and the run has ended
C8_Witness ==
    \/ pc = "done" /\ exc = "SMTPException" /\ session = "closed"
          /\ ~net[Len(net)].ok /\ net[Len(net)].op = "SMTP login"
    \/ m_pc = "done" /\ m_exc = "SMTPException" /\ m_session = "closed"
          /\ ~m_net[Len(m_net)].ok /\ m_net[Len(m_net)].op = "SMTP login"

\* ---- C9 ----------------------------------------------------------------
KeysOf(rows) == { Key(rows[i]) : i \in 1..Len(rows) }

RECURSIVE SumOver(_, _)
SumOver(rows, idx) ==
    IF idx = {} THEN 0
    ELSE LET i == CHOOSE x \in idx : TRUE
         IN  rows[i].detect_count + SumOver(rows, idx \ {i})

\* Sum of detect_count over all rows of an identity
TotalOf(rows, k) == SumOver(rows, { i \in 1..Len(rows) : Key(rows[i]) = k })

EntryKey(e) == <<e.code, e.name_ja, e.category, e.risk_level>>

MinOf(a, b) == IF a < b THEN a ELSE b

\* C9: the list fetch_high_risk_ranking returns has one entry per identity
\* (code, name_ja, category, risk_level), no identity twice, each with
\* total_count the sum of detect_count over all rows of that identity; it is
\* ordered by total_count descending and holds the first `limit` entries, so
\* its length is min(limit, number of identities) and no omitted identity has a
\* larger total than a returned one.  Before the slice it holds every identity.
C9_RankingAggregatesSortsTruncates ==
    /\ (rk_pc \in {"sort", "slice", "returned"}) =>
          /\ \A i, j \in 1..Len(rk_result) :
                (i # j) => EntryKey(rk_result[i]) # EntryKey(rk_result[j])
          /\ \A i \in 1..Len(rk_result) :
                /\ EntryKey(rk_result[i]) \in KeysOf(rk_rows)
                /\ rk_result[i].total_count = TotalOf(rk_rows, EntryKey(rk_result[i]))
    /\ (rk_pc \in {"sort", "slice"}) => Len(rk_result) = Cardinality(KeysOf(rk_rows))
    /\ (rk_pc \in {"slice", "returned"}) =>
          \A i, j \in 1..Len(rk_result) :
              (i < j) => rk_result[i].total_count >= rk_result[j].total_count
    /\ (rk_pc = "returned") =>
          /\ Len(rk_result) = MinOf(rk_limit, Cardinality(KeysOf(rk_rows)))
          /\ \A k \in KeysOf(rk_rows) :
                (\A i \in 1..Len(rk_result) : EntryKey(rk_result[i]) # k) =>
                    \A i \in 1..Len(rk_result) :
                        TotalOf(rk_rows, k) <= rk_result[i].total_count

\* rows {A,3} and {A,5} of one identity give an entry of 8, and the list is
\* cut to `limit` with another identity left out
C9_Witness ==
    /\ rk_pc = "returned"
    /\ \E i, j \in 1..Len(rk_rows) :
          /\ i # j
          /\ Key(rk_rows[i]) = Key(rk_rows[j])
          /\ rk_rows[i].detect_count = 3 /\ rk_rows[j].detect_count = 5
          /\ \E e \in 1..Len(rk_result) :
                /\ EntryKey(rk_result[e]) = Key(rk_rows[i])
                /\ rk_result[e].total_count = 8
    /\ Len(rk_result) = rk_limit
    /\ Len(rk_result) < Cardinality(KeysOf(rk_rows))

\* ---- C10 ---------------------------------------------------------------
\* C10: the monthly run has no condition on the send.  Whatever rows the two
\* queries return, the run goes on to send_mail, calls it exactly once, and a
\* run that ends with status 0 has sent exactly one message, carrying the body
\* built.  An absent summary row does not end the run: the body is then the
\* "no data" text, without metrics and ranking, and it is so only then.
C10_MonthlyAlwaysSendsOne ==
    /\ m_send_calls \in {0, 1}
    /\ Len(m_sent) <= m_send_calls
    /\ (Len(m_net) = 1 /\ m_net[1].ok) =>
          (m_pc = "fetch_high_risk_ranking" /\ m_exit = None)
    /\ (Len(m_net) = 2 /\ m_net[2].ok) =>
          (m_pc \in {"build_report_body", "send_mail"} /\ m_exit = None)
    /\ (m_pc = "done" /\ Len(m_net) >= 2 /\ m_net[1].ok /\ m_net[2].ok) =>
          m_send_calls = 1
    /\ (m_exit = Some(0)) =>
          (m_send_calls = 1 /\ Len(m_sent) = 1 /\ m_sent[1].body = m_body[1])
    /\ (m_body # None) =>
          /\ (m_body[1].kind = "no_data") <=> (m_month_row = None)
          /\ (m_month_row = None) =>
                (m_body[1].metrics = None /\ m_body[1].ranking = <<>>)
          /\ (m_month_row # None) =>
                (m_body[1].metrics = m_month_row /\ Len(m_body[1].ranking) = Len(m_list))

\* no summary row, and one "no data" message is sent
C10_Witness ==
    /\ m_pc = "done"
    /\ m_exit = Some(0)
    /\ m_month_row = None
    /\ m_list # <<>>
    /\ Len(m_sent) = 1
    /\ m_sent[1].body.kind = "no_data"

====
